---- MODULE Spec2Model ----
(***************************************************************************)
(* The trends endpoints of sentry/api/endpoints/organization_events_trends *)
(* (OrganizationEventsTrendsEndpointBase.get and the two result handlers)  *)
(* as a state machine: one request is parsed, compiled into the column     *)
(* list of discover.query, the filter is rewritten, the primary query is   *)
(* issued, and the stats endpoint then issues discover.top_events_         *)
(* timeseries for the rows that came back.  Strings are TLA+ strings, and  *)
(* str.format / str.replace are computed character by character.           *)
(***************************************************************************)
EXTENDS Integers, Sequences, FiniteSets, TLC

VARIABLES
    request,           \* the request: feature flag, projects, params, GET, fields
    pc,                \* where the handler is: request, data_fn, on_results, done
    response,          \* what the request answered
    middle,            \* get's middle, a datetime in microseconds
    window,            \* get's start, middle, end: the formatted dates
    query,             \* get's query after the two replacements
    selected_columns,  \* the selected_columns argument of discover.query
    events_results,    \* the number of rows of events_results["data"]
    top_n,             \* the limit argument of discover.top_events_timeseries
    in_flight,         \* the calls of the query engine that have not returned
    raised,            \* the calls of the query engine that raised
    n_query,           \* how often discover.query was called
    n_timeseries       \* how often discover.top_events_timeseries was called

vars == <<request, pc, response, middle, window, query, selected_columns,
          events_results, top_n, in_flight, raised, n_query, n_timeseries>>

(***************************************************************************)
(* Bounds of the model.                                                    *)
(***************************************************************************)
\* the page sizes the primary query may come back with: 0..MaxRows rows
MaxRows == 6
\* the request's date range lies in 0..MaxSeconds seconds after midnight
MaxSeconds == 13
\* a filter is the concatenation of at most MaxPieces pieces of FilterPieces
MaxPieces == 3

(***************************************************************************)
(* Program constants.                                                      *)
(***************************************************************************)
\* min(5, len(events_results["data"]))
TopEventsCap == 5
\* datetime keeps microseconds
MicrosPerSecond == 1000000

(***************************************************************************)
(* Python values.  None is the empty tuple and a present value v is <<v>>, *)
(* so that a string is never compared with a non-string.                   *)
(***************************************************************************)
None == <<>>

Some(v) == <<v>>

Min(a, b) == IF a <= b THEN a ELSE b

(***************************************************************************)
(* str: the pieces of Python's string operations the handler uses.         *)
(***************************************************************************)
\* s[i-1 : i-1+len(t)] == t
StartsWithAt(s, i, t) ==
    /\ i >= 1
    /\ i + Len(t) - 1 <= Len(s)
    /\ SubSeq(s, i, i + Len(t) - 1) = t

\* s.find(t, i-1) + 1: the first position >= i where t starts, 0 when none
StrFind(s, t, i) ==
    LET P == { k \in i..(Len(s) - Len(t) + 1) : StartsWithAt(s, k, t) }
    IN  IF P = {} THEN 0 ELSE CHOOSE k \in P : \A j \in P : k <= j

\* s[i-1:]
StrFrom(s, i) == IF i > Len(s) THEN "" ELSE SubSeq(s, i, Len(s))

RECURSIVE StrReplaceFrom(_, _, _, _)
StrReplaceAt(s, i, k, old, new) ==
    IF k = 0 THEN StrFrom(s, i)
    ELSE SubSeq(s, i, k - 1) \o new \o StrReplaceFrom(s, k + Len(old), old, new)

\* the scan of str.replace from position i: find the next occurrence, copy
\* the text before it, put new in its place, go on after it
StrReplaceFrom(s, i, old, new) == StrReplaceAt(s, i, StrFind(s, old, i), old, new)

StrReplaceFirstAt(s, k, old, new) ==
    IF k = 0 THEN s
    ELSE SubSeq(s, 1, k - 1) \o new \o StrFrom(s, k + Len(old))

\* str.replace(old, new, 1): the first occurrence alone
str_replace_first(s, old, new) == StrReplaceFirstAt(s, StrFind(s, old, 1), old, new)

\* str.replace(old, new) for a non-empty old: every non-overlapping
\* occurrence, scanning left to right
str_replace(s, old, new) == StrReplaceFrom(s, 1, old, new)

\* the outcome of an evaluation that may raise: err = "" is success
Ok(v) == [err |-> "", val |-> v]

Raise(e) == [err |-> e, val |-> ""]

\* the text lit before a replacement field, the field's value, and then
\* what the rest of the template formats to (or the error it raises)
FormatJoin(lit, value, rest) ==
    IF rest.err # "" THEN rest ELSE Ok(lit \o value \o rest.val)

RECURSIVE StrFormatFrom(_, _, _, _, _)
\* the replacement field name that opens at o and closes at j: "" is the
\* next automatically numbered positional argument, a name is a keyword
StrFormatField(t, i, o, j, name, n, args, kwargs) ==
    IF name = ""
    THEN IF n + 1 > Len(args) THEN Raise("IndexError")
         ELSE FormatJoin(SubSeq(t, i, o - 1), args[n + 1],
                         StrFormatFrom(t, j + 1, n + 1, args, kwargs))
    ELSE IF name \notin DOMAIN kwargs THEN Raise("KeyError")
         ELSE FormatJoin(SubSeq(t, i, o - 1), kwargs[name],
                         StrFormatFrom(t, j + 1, n, args, kwargs))

StrFormatBrace(t, i, o, j, n, args, kwargs) ==
    StrFormatField(t, i, o, j, SubSeq(t, o + 1, j - 1), n, args, kwargs)

StrFormatOpen(t, i, o, n, args, kwargs) ==
    IF o = 0 THEN Ok(StrFrom(t, i))
    ELSE StrFormatBrace(t, i, o, StrFind(t, "}", o + 1), n, args, kwargs)

\* str.format over the replacement fields of t from position i on; n counts
\* the automatically numbered fields "{}" met so far
StrFormatFrom(t, i, n, args, kwargs) ==
    StrFormatOpen(t, i, StrFind(t, "{", i), n, args, kwargs)

\* t.format(*args, **kwargs)
str_format(t, args, kwargs) == StrFormatFrom(t, 1, 0, args, kwargs)

\* dict[key]: KeyError when the key is absent
dict_getitem(d, key) == IF key \in DOMAIN d THEN Ok(d[key]) ELSE Raise("KeyError")

\* dict.get(key) / QueryDict.get(key, default)
dict_get(d, key, default) == IF key \in DOMAIN d THEN Some(d[key]) ELSE default

(***************************************************************************)
(* OrganizationEventsTrendsEndpointBase.trend_columns                      *)
(***************************************************************************)
\* the registry with the percentile entries tagged by an alias no expression
\* produces
trend_columns_wrong_alias ==
    [ p50 |-> [format |-> "percentile_range(transaction.duration, 0.5, {start}, {end}, {index})",
               alias  |-> "p50_range_"],
      p75 |-> [format |-> "percentile_range(transaction.duration, 0.75, {start}, {end}, {index})",
               alias  |-> "p75_range_"],
      p95 |-> [format |-> "percentile_range(transaction.duration, 0.95, {start}, {end}, {index})",
               alias  |-> "p95_range_"],
      p99 |-> [format |-> "percentile_range(transaction.duration, 0.99, {start}, {end}, {index})",
               alias  |-> "p99_range_"],
      avg |-> [format |-> "avg_range(transaction.duration, {start}, {end}, {index})",
               alias  |-> "avg_range_"],
      user_misery |-> [format |-> "user_misery_range({}, {start}, {end}, {index})",
                       alias  |-> "user_misery_range_"],
      count_range |-> [format |-> "count_range({start}, {end}, {index})",
                       alias  |-> "count_range_"],
      t_score |-> [format |-> "t_score({avg}1, {avg}2, {variance}1, {variance}2, {count}1, {count}2)"],
      degrees_of_freedom |-> [format |-> "degrees_of_freedom({variance}1, {variance}2, {count}1, {count}2)"],
      variance_range |-> [format |-> "variance_range(transaction.duration, {start}, {end}, {index})",
                          alias  |-> "variance_range_"],
      percentage |-> [format |-> "percentage({alias}2, {alias}1)"] ]

trend_columns ==
    [ p50 |-> [format |-> "percentile_range(transaction.duration, 0.5, {start}, {end}, {index})",
               alias  |-> "percentile_range_"],
      p75 |-> [format |-> "percentile_range(transaction.duration, 0.75, {start}, {end}, {index})",
               alias  |-> "percentile_range_"],
      p95 |-> [format |-> "percentile_range(transaction.duration, 0.95, {start}, {end}, {index})",
               alias  |-> "percentile_range_"],
      p99 |-> [format |-> "percentile_range(transaction.duration, 0.99, {start}, {end}, {index})",
               alias  |-> "percentile_range_"],
      avg |-> [format |-> "avg_range(transaction.duration, {start}, {end}, {index})",
               alias  |-> "avg_range_"],
      user_misery |-> [format |-> "user_misery_range({}, {start}, {end}, {index})",
                       alias  |-> "user_misery_range_"],
      count_range |-> [format |-> "count_range({start}, {end}, {index})",
                       alias  |-> "count_range_"],
      t_score |-> [format |-> "t_score({avg}1, {avg}2, {variance}1, {variance}2, {count}1, {count}2)"],
      degrees_of_freedom |-> [format |-> "degrees_of_freedom({variance}1, {variance}2, {count}1, {count}2)"],
      variance_range |-> [format |-> "variance_range(transaction.duration, {start}, {end}, {index})",
                          alias  |-> "variance_range_"],
      percentage |-> [format |-> "percentage({alias}2, {alias}1)"] ]

(***************************************************************************)
(* sentry.api.event_search: parse_function and DateArg.date_format.        *)
(***************************************************************************)
RECURSIVE StrStrip(_)
\* str.strip() of blanks
StrStrip(s) ==
    IF s = "" THEN s
    ELSE IF SubSeq(s, 1, 1) = " " THEN StrStrip(SubSeq(s, 2, Len(s)))
    ELSE IF SubSeq(s, Len(s), Len(s)) = " " THEN StrStrip(SubSeq(s, 1, Len(s) - 1))
    ELSE s

RECURSIVE StrSplit(_, _)
StrSplitAt(s, i, sep) ==
    IF i = 0 THEN <<s>>
    ELSE <<SubSeq(s, 1, i - 1)>> \o StrSplit(StrFrom(s, i + Len(sep)), sep)

\* s.split(sep)
StrSplit(s, sep) == StrSplitAt(s, StrFind(s, sep, 1), sep)

\* the stripped, non-empty members of a list of strings
StrippedNonEmpty(l) ==
    SelectSeq([k \in 1..Len(l) |-> StrStrip(l[k])], LAMBDA c : Len(c) > 0)

ParseFunctionAt(field, i) ==
    IF i <= 1 \/ SubSeq(field, Len(field), Len(field)) # ")"
    THEN Raise("InvalidSearchQuery")
    ELSE Ok([function |-> SubSeq(field, 1, i - 1),
             columns  |-> StrippedNonEmpty(
                              StrSplit(SubSeq(field, i + 1, Len(field) - 1), ","))])

\* parse_function("name(a, b)") = ("name", ["a", "b"]); a text that is not of
\* the shape name(args...) is no function
parse_function(field) == ParseFunctionAt(field, StrFind(field, "(", 1))

Pad2(n) == IF n < 10 THEN "0" \o ToString(n) ELSE ToString(n)

\* datetime.strftime(dt, "%Y-%m-%dT%H:%M:%S") of the instant dt microseconds
\* after 2020-01-01T00:00:00, within that day: the microseconds are dropped
strftime(dt) ==
    LET s == dt \div MicrosPerSecond
    IN  "2020-01-01T" \o Pad2(s \div 3600) \o ":" \o Pad2((s % 3600) \div 60)
                      \o ":" \o Pad2(s % 60)

(***************************************************************************)
(* get, lines 68-76: the three boundaries of the window.                   *)
(***************************************************************************)
\* the midpoint taken as the end of the range plus half its length
trend_dates_middle_from_end(start, end) == end + ((end - start) \div 2)

\* params["start"] + timedelta(seconds=(end - start).total_seconds() * 0.5),
\* in microseconds; a range of whole seconds has an exact half
trend_dates_middle(start, end) == start + ((end - start) \div 2)

TrendDates(params, m) ==
    [middle |-> m,
     window |-> [start  |-> strftime(params.start),
                 middle |-> strftime(m),
                 end    |-> strftime(params.end)]]

trend_dates(params) == TrendDates(params, trend_dates_middle(params.start, params.end))

(***************************************************************************)
(* get, lines 84-126: the compiled column list and the rewritten filter.   *)
(***************************************************************************)
RECURSIVE Collect(_)
CollectJoin(r, rest) ==
    IF rest.err # "" THEN rest ELSE Ok(<<r.val>> \o rest.val)

\* a list display evaluates its members left to right: the first one that
\* raises ends the evaluation, otherwise the list of the values
Collect(rs) ==
    IF rs = <<>> THEN Ok(<<>>)
    ELSE IF Head(rs).err # "" THEN Head(rs)
    ELSE CollectJoin(Head(rs), Collect(Tail(rs)))

count_column == trend_columns["count_range"]

percentage_column == trend_columns["percentage"]

variance_column == trend_columns["variance_range"]

avg_column == trend_columns["avg"]

\* lines 89-91
t_score ==
    str_format(trend_columns["t_score"]["format"], <<>>,
               [avg      |-> avg_column["alias"],
                variance |-> variance_column["alias"],
                count    |-> count_column["alias"]]).val

\* lines 92-94
degrees_of_freedom ==
    str_format(trend_columns["degrees_of_freedom"]["format"], <<>>,
               [variance |-> variance_column["alias"],
                count    |-> count_column["alias"]]).val

\* a rewrite that replaces only the first occurrence of each token
rewrite_query_first_only(q) ==
    str_replace_first(str_replace_first(q, "t_score()", t_score),
                      "degrees_of_freedom()", degrees_of_freedom)

\* lines 96-97
rewrite_query(q) ==
    str_replace(str_replace(q, "t_score()", t_score),
                "degrees_of_freedom()", degrees_of_freedom)

\* a call template.format(*args, **kwargs) whose arguments are evaluated
\* first: err is what that evaluation raises
FormatCall(template, args, kwargs) ==
    [err |-> "", format |-> template, args |-> args, kwargs |-> kwargs]

FormatCallRaises(e) == [err |-> e, format |-> "", args |-> <<>>, kwargs |-> <<>>]

EvalFormatCall(c) ==
    IF c.err # "" THEN Raise(c.err) ELSE str_format(c.format, c.args, c.kwargs)

\* trend_column["format"].format(*columns, start=.., end=.., index=..)
trend_call(trend_column, columns, kwargs) ==
    IF "format" \in DOMAIN trend_column
    THEN FormatCall(trend_column["format"], columns, kwargs)
    ELSE FormatCallRaises("KeyError")

\* "minus({alias}2,{alias}1)".format(alias=trend_column["alias"])
delta_call(trend_column) ==
    IF "alias" \in DOMAIN trend_column
    THEN FormatCall("minus({alias}2,{alias}1)", <<>>, [alias |-> trend_column["alias"]])
    ELSE FormatCallRaises("KeyError")

\* the window arguments of the first and of the second half
range_1(w) == [start |-> w.start, end |-> w.middle, index |-> "1"]

range_2(w) == [start |-> w.middle, end |-> w.end, index |-> "2"]

\* the ten format calls of lines 104-113, in the order of the list
data_fn_calls(trend_column, columns, w) ==
    << trend_call(trend_column, columns, range_1(w)),
       trend_call(trend_column, columns, range_2(w)),
       delta_call(trend_column),
       FormatCall(count_column["format"], <<>>, range_1(w)),
       FormatCall(count_column["format"], <<>>, range_2(w)),
       FormatCall(percentage_column["format"], <<>>, [alias |-> count_column["alias"]]),
       FormatCall(variance_column["format"], <<>>, range_1(w)),
       FormatCall(variance_column["format"], <<>>, range_2(w)),
       FormatCall(avg_column["format"], <<>>, range_1(w)),
       FormatCall(avg_column["format"], <<>>, range_2(w)) >>

DataFnList(fields, rs) ==
    IF rs.err # "" THEN rs ELSE Ok(fields \o rs.val \o <<t_score, degrees_of_freedom>>)

DataFnEval(fields, calls) ==
    DataFnList(fields, Collect([k \in 1..Len(calls) |-> EvalFormatCall(calls[k])]))

\* lines 102-116: selected_columns + [the twelve compiled columns]
data_fn_columns(fields, trend_column, columns, w) ==
    DataFnEval(fields, data_fn_calls(trend_column, columns, w))

(***************************************************************************)
(* The response of a request.  kind is "pending" while the handler runs,   *)
(* then "404", "empty" (Response([])), the name of the exception that      *)
(* ended the request, or "ok".                                             *)
(***************************************************************************)
Pending == [kind |-> "pending", detail |-> "", events |-> None, stats |-> None]

Failed(e, detail) == [kind |-> e, detail |-> detail, events |-> None, stats |-> None]

\* the state get leaves behind: where the handler is, what it answered, and
\* the locals it had computed by then
GetState(at, resp, dates, q, cols) ==
    [pc |-> at, response |-> resp,
     middle |-> IF dates = None THEN None ELSE Some(dates[1].middle),
     window |-> IF dates = None THEN None ELSE Some(dates[1].window),
     query |-> q, selected_columns |-> cols]

\* lines 78-82 with every registered name accepted, so that an unregistered
\* one meets trend_column["format"] instead of the ParseError
lookup_trend_column_unchecked(function) ==
    IF function \in DOMAIN trend_columns THEN Some(trend_columns[function])
    ELSE Some([alias |-> function \o "_"])

\* line 80: self.trend_columns.get(function)
lookup_trend_column(function) == dict_get(trend_columns, function, None)

\* lines 128-137: paginate calls data_fn, which builds the column list and
\* calls discover.query
get_paginate(dates, rewritten, cols) ==
    IF cols.err # ""
    THEN GetState("done", Failed(cols.err, ""), dates, Some(rewritten), <<>>)
    ELSE GetState("data_fn", Pending, dates, Some(rewritten), cols.val)

\* lines 95-97: request.GET.get("query") and the two replacements; None has
\* no replace
get_query(req, dates, parsed, trend_column, q) ==
    IF q = None
    THEN GetState("done", Failed("AttributeError", ""), dates, None, <<>>)
    ELSE get_paginate(dates, rewrite_query(q[1]),
                      data_fn_columns(req.field, trend_column, parsed.columns,
                                      dates[1].window))

\* lines 80-82
get_trend_column(req, dates, trend_function, parsed, trend_column) ==
    IF trend_column = None
    THEN GetState("done",
                  Failed("ParseError",
                         trend_function \o " is not a supported trend function"),
                  dates, None, <<>>)
    ELSE get_query(req, dates, parsed, trend_column[1],
                   dict_get(req.GET, "query", None))

\* line 79
get_function(req, dates, trend_function, parsed) ==
    IF parsed.err # ""
    THEN GetState("done", Failed(parsed.err, trend_function), dates, None, <<>>)
    ELSE get_trend_column(req, dates, trend_function, parsed.val,
                          lookup_trend_column(parsed.val.function))

\* line 78
get_trend_function(req, dates, trend_function) ==
    get_function(req, dates, trend_function, parse_function(trend_function))

\* get, lines 59-137, up to the call of discover.query (or the response
\* that ends the request before it)
get_run(req) ==
    IF ~req.has_feature THEN GetState("done", Failed("404", ""), None, None, <<>>)
    ELSE IF ~req.has_projects
    THEN GetState("done", [kind |-> "empty", detail |-> "", events |-> None,
                           stats |-> None], None, None, <<>>)
    ELSE get_trend_function(req, Some(trend_dates(req.params)),
                            dict_get(req.GET, "trendFunction", Some("p50()"))[1])

(***************************************************************************)
(* The result handlers, lines 140-189.                                     *)
(***************************************************************************)
\* line 153: min(5, len(events_results["data"]))
top_events_limit(n) == Min(TopEventsCap, n)

\* a handler that fetches the statistics of an empty result set too
build_result_handler_always_fetch(endpoint, n) ==
    IF endpoint = "events-trends"
    THEN [fetch |-> FALSE, stats |-> None]
    ELSE [fetch |-> TRUE, top_n |-> top_events_limit(n)]

\* self.get_event_stats_data(request, organization, get_event_stats, ...):
\* it calls get_event_stats once, which calls discover.top_events_timeseries
\* with the limit, and returns what that returns
get_event_stats_data(limit) == [fetch |-> TRUE, top_n |-> limit]

\* what on_results does with n rows: the plain endpoint (lines 183-189)
\* answers the events alone; the stats endpoint (lines 140-180) calls
\* get_event_stats_data when there is a row and answers stats = {} otherwise
build_result_handler(endpoint, n) ==
    IF endpoint = "events-trends"
    THEN [fetch |-> FALSE, stats |-> None]
    ELSE IF n > 0
         THEN get_event_stats_data(top_events_limit(n))
         ELSE [fetch |-> FALSE, stats |-> Some({})]

\* self.paginate(paginator=GenericOffsetPaginator(data_fn), on_results=h):
\* the rows data_fn returned are handed to the result handler
paginate(endpoint, n) == build_result_handler(endpoint, n)

\* a failed primary query taken for an empty page, the handler going on to
\* the statistics
query_error_goes_on == [pc |-> "on_results", response |-> Pending]

\* lines 128-137: nothing in get catches what discover.query raises inside
\* paginate; handle_query_errors re-raises it as the request's error
query_error == [pc |-> "done", response |-> Failed("QueryError", "discover.query")]

\* an on_results that answers the events alone when the statistics fail
stats_error_events_only(n) ==
    [kind |-> "ok", detail |-> "", events |-> Some(n), stats |-> Some({})]

\* lines 159-171: on_results has no handler around get_event_stats_data, so
\* what discover.top_events_timeseries raises ends the request
stats_error(n) == Failed("QueryError", "discover.top_events_timeseries")

(***************************************************************************)
(* The requests.                                                           *)
(***************************************************************************)
\* request.GET with the parameters that are present
QueryDict(trendFunction, q) ==
    IF trendFunction = None
    THEN IF q = None THEN <<>> ELSE [query |-> q[1]]
    ELSE IF q = None THEN [trendFunction |-> trendFunction[1]]
         ELSE [trendFunction |-> trendFunction[1], query |-> q[1]]

Requests(Features, Projects, Ranges, TrendFunctions, Queries, Fields, Endpoints) ==
    { [has_feature  |-> f,
       has_projects |-> p,
       params       |-> [start |-> r[1] * MicrosPerSecond,
                         end   |-> r[2] * MicrosPerSecond],
       GET          |-> QueryDict(t, q),
       field        |-> fl,
       endpoint     |-> e] :
      f \in Features, p \in Projects, r \in Ranges, t \in TrendFunctions,
      q \in Queries, fl \in Fields, e \in Endpoints }

Endpoints == {"events-trends", "events-trends-stats"}

\* the names of trendFunction the requests try: every entry of the registry,
\* with and without arguments, the absent parameter and an unknown name
TrendFunctionParams ==
    {None} \cup
    { Some(t) : t \in {"p50()", "p75()", "p95()", "p99()", "avg()", "user_misery()",
                       "user_misery(300)", "count_range()", "variance_range()",
                       "t_score()", "degrees_of_freedom()", "percentage()",
                       "foo()", "p95(transaction.duration)", "avg(a, b)",
                       "p50_range()"} }

QueryParams ==
    {None} \cup
    { Some(q) : q \in {"", "t_score() > 2 and count_range_1 > 100",
                       "degrees_of_freedom() > 1 or t_score() < t_score()"} }

FieldParams == { <<>>, <<"transaction">>, <<"transaction", "project">> }

InitRequest(R) ==
    /\ request \in R
    /\ pc = "request"
    /\ response = Pending
    /\ middle = None
    /\ window = None
    /\ query = None
    /\ selected_columns = <<>>
    /\ events_results = None
    /\ top_n = None
    /\ in_flight = {}
    /\ raised = {}
    /\ n_query = 0
    /\ n_timeseries = 0

Init ==
    InitRequest(Requests(BOOLEAN, BOOLEAN, {<<0, 0>>, <<3, 10>>},
                         TrendFunctionParams, QueryParams, FieldParams, Endpoints))

(***************************************************************************)
(* The steps of a request.                                                 *)
(***************************************************************************)
GetStep(r) ==
    /\ pc' = r.pc
    /\ response' = r.response
    /\ middle' = r.middle
    /\ window' = r.window
    /\ query' = r.query
    /\ selected_columns' = r.selected_columns
    /\ in_flight' = IF r.pc = "data_fn"
                    THEN in_flight \cup {"discover.query"} ELSE in_flight
    /\ n_query' = IF r.pc = "data_fn" THEN n_query + 1 ELSE n_query

\* get runs to its response or to the call of discover.query in data_fn
get ==
    /\ pc = "request"
    /\ GetStep(get_run(request))
    /\ UNCHANGED <<request, events_results, top_n, raised, n_timeseries>>

\* discover.query returns n rows and paginate hands them to on_results,
\* which answers or calls discover.top_events_timeseries
on_results ==
    /\ pc = "data_fn"
    /\ "discover.query" \in in_flight
    /\ \E n \in 0..MaxRows :
          LET h == paginate(request.endpoint, n)
          IN  /\ events_results' = Some(n)
              /\ IF h.fetch
                 THEN /\ pc' = "on_results"
                      /\ in_flight' = (in_flight \ {"discover.query"})
                                          \cup {"discover.top_events_timeseries"}
                      /\ top_n' = Some(h.top_n)
                      /\ n_timeseries' = n_timeseries + 1
                      /\ response' = response
                 ELSE /\ pc' = "done"
                      /\ in_flight' = in_flight \ {"discover.query"}
                      /\ top_n' = top_n
                      /\ n_timeseries' = n_timeseries
                      /\ response' = [kind |-> "ok", detail |-> "",
                                      events |-> Some(n), stats |-> h.stats]
    /\ UNCHANGED <<request, middle, window, query, selected_columns, raised, n_query>>

\* discover.query raises
discover_query_raises ==
    /\ pc = "data_fn"
    /\ "discover.query" \in in_flight
    /\ pc' = query_error.pc
    /\ response' = query_error.response
    /\ in_flight' = IF query_error.pc = "on_results"
                    THEN (in_flight \ {"discover.query"})
                             \cup {"discover.top_events_timeseries"}
                    ELSE in_flight \ {"discover.query"}
    /\ n_timeseries' = IF query_error.pc = "on_results"
                       THEN n_timeseries + 1 ELSE n_timeseries
    /\ raised' = raised \cup {"discover.query"}
    /\ UNCHANGED <<request, middle, window, query, selected_columns,
                   events_results, top_n, n_query>>

\* discover.top_events_timeseries returns the series of the top_n rows and
\* on_results answers events and stats
get_event_stats_returns ==
    /\ pc = "on_results"
    /\ "discover.top_events_timeseries" \in in_flight
    /\ pc' = "done"
    /\ in_flight' = in_flight \ {"discover.top_events_timeseries"}
    /\ response' = [kind |-> "ok", detail |-> "", events |-> events_results,
                    stats |-> IF top_n = None THEN Some({}) ELSE Some(1..top_n[1])]
    /\ UNCHANGED <<request, middle, window, query, selected_columns,
                   events_results, top_n, raised, n_query, n_timeseries>>

\* discover.top_events_timeseries raises
get_event_stats_raises ==
    /\ pc = "on_results"
    /\ "discover.top_events_timeseries" \in in_flight
    /\ pc' = "done"
    /\ in_flight' = in_flight \ {"discover.top_events_timeseries"}
    /\ response' = stats_error(IF events_results = None THEN 0 ELSE events_results[1])
    /\ raised' = raised \cup {"discover.top_events_timeseries"}
    /\ UNCHANGED <<request, middle, window, query, selected_columns,
                   events_results, top_n, n_query, n_timeseries>>

Next ==
    \/ get
    \/ on_results
    \/ discover_query_raises
    \/ get_event_stats_returns
    \/ get_event_stats_raises

Spec == Init /\ [][Next]_vars

(***************************************************************************)
(* The window splitter on every range of whole seconds of 0..MaxSeconds.   *)
(***************************************************************************)
InitDates ==
    InitRequest(Requests({TRUE}, {TRUE},
                         { r \in (0..MaxSeconds) \X (0..MaxSeconds) : r[1] <= r[2] },
                         {Some("p50()")}, {Some("")}, {<<>>},
                         {"events-trends-stats"}))

SpecDates == InitDates /\ [][Next]_vars

(***************************************************************************)
(* The query rewriter on every filter made of at most MaxPieces pieces:    *)
(* the two tokens, parts of them that join to a token across a boundary,   *)
(* and other text.                                                         *)
(***************************************************************************)
FilterPieces ==
    {"t_score()", "degrees_of_freedom()", "t_score(", ")", "degrees_of_freedom",
     "()", " > 2 and x", "t_"}

RECURSIVE Filters(_)
Filters(n) ==
    IF n = 0 THEN {""}
    ELSE {""} \cup { p \o f : p \in FilterPieces, f \in Filters(n - 1) }

InitRewrite ==
    InitRequest(Requests({TRUE}, {TRUE}, {<<0, 2>>}, {Some("p95()")},
                         { Some(f) : f \in Filters(MaxPieces) }, {<<>>},
                         {"events-trends-stats"}))

SpecRewrite == InitRewrite /\ [][Next]_vars

(***************************************************************************)
(* What the properties below speak about.                                  *)
(***************************************************************************)
\* the request passed the feature flag and has projects: it reaches line 68
Passed == request.has_feature /\ request.has_projects

\* the trendFunction parameter, "p50()" when absent
TrendFunctionParam == dict_get(request.GET, "trendFunction", Some("p50()"))[1]

\* the name of the trend function the request asks for
TrendFunctionName == parse_function(TrendFunctionParam).val.function

HasQueryParam == "query" \in DOMAIN request.GET

IsStats == request.endpoint = "events-trends-stats"

\* the twelve compiled columns follow the request's fields
Compiled == Len(selected_columns) = Len(request.field) + 12

\* the k-th compiled column
Column(k) == selected_columns[Len(request.field) + k]

\* C1: a request that reaches the lookup with a trend function name that is
\* no key of trend_columns ends with the ParseError "<input> is not a
\* supported trend function", and neither discover.query nor
\* discover.top_events_timeseries is ever called for it.
C1_UnsupportedRejected ==
    (TrendFunctionName \notin DOMAIN trend_columns) =>
        /\ n_query = 0
        /\ n_timeseries = 0
        /\ in_flight = {}
        /\ (Passed /\ pc # "request") =>
              /\ pc = "done"
              /\ response.kind = "ParseError"
              /\ response.detail
                    = TrendFunctionParam \o " is not a supported trend function"
              /\ response.events = None

C1_Witness ==
    /\ pc = "done"
    /\ TrendFunctionParam = "foo()"
    /\ response.kind = "ParseError"
    /\ n_query = 0

\* C2: at the stats endpoint, a primary result of zero rows calls
\* discover.top_events_timeseries never and answers stats = {}; a result of
\* n > 0 rows calls it exactly once, with a limit that is at most 5, at most
\* n, and one of the two.
C2_StatsFetch ==
    (IsStats /\ events_results # None) =>
        IF events_results[1] = 0
        THEN /\ n_timeseries = 0
             /\ top_n = None
             /\ pc = "done"
             /\ response.stats = Some({})
        ELSE /\ n_timeseries = 1
             /\ top_n # None
             /\ top_n[1] <= 5
             /\ top_n[1] <= events_results[1]
             /\ top_n[1] = 5 \/ top_n[1] = events_results[1]

C2_Witness ==
    /\ IsStats
    /\ events_results = Some(5)
    /\ top_n = Some(5)
    /\ n_timeseries = 1
    /\ pc = "on_results"

\* C3 (as claimed): for every registered metric and every argument list, the
\* empty one included, a request with a filter compiles its columns without
\* an error and hands discover.query len(fields) + 12 columns, the fields
\* first.  (Stated for the entries that carry an alias; the three that carry
\* none are the subject of C6.)
C3_CompileNeverFails ==
    (Passed /\ HasQueryParam /\ pc # "request"
       /\ TrendFunctionName \in DOMAIN trend_columns
       /\ "alias" \in DOMAIN trend_columns[TrendFunctionName]) =>
        /\ response.kind \notin {"KeyError", "IndexError"}
        /\ n_query = 1
        /\ Compiled
        /\ SubSeq(selected_columns, 1, Len(request.field)) = request.field

\* the positions of s where the token tok starts
Occurrences(s, tok) == { k \in 1..(Len(s) - Len(tok) + 1) : StartsWithAt(s, k, tok) }

\* position k of s lies inside an occurrence of tok
Covered(s, tok, k) == \E o \in Occurrences(s, tok) : o <= k /\ k < o + Len(tok)

\* where the text at position k of the filter s lies in the rewritten
\* filter: every token that starts before k has grown to its formula
Shifted(s, k) ==
    (k - 1)
    + Cardinality({ o \in Occurrences(s, "t_score()") : o < k })
          * (Len(t_score) - Len("t_score()"))
    + Cardinality({ o \in Occurrences(s, "degrees_of_freedom()") : o < k })
          * (Len(degrees_of_freedom) - Len("degrees_of_freedom()"))

\* out is s with every occurrence of the two tokens replaced by its formula
\* and every other character kept, in place and in order
IsRewriteOf(out, s) ==
    /\ Len(out) = Shifted(s, Len(s) + 1)
    /\ \A k \in Occurrences(s, "t_score()") :
          StartsWithAt(out, Shifted(s, k) + 1, t_score)
    /\ \A k \in Occurrences(s, "degrees_of_freedom()") :
          StartsWithAt(out, Shifted(s, k) + 1, degrees_of_freedom)
    /\ \A k \in 1..Len(s) :
          (~Covered(s, "t_score()", k) /\ ~Covered(s, "degrees_of_freedom()", k)) =>
              StartsWithAt(out, Shifted(s, k) + 1, SubSeq(s, k, k))

\* C4: the filter handed to discover.query is the request's filter with every
\* t_score() replaced by the t_score formula, every degrees_of_freedom() by
\* the degrees_of_freedom formula and all other text unchanged; a filter
\* with neither token is handed on as it is.
C4_RewriteAll ==
    (pc = "data_fn" /\ HasQueryParam /\ query # None) =>
        /\ IsRewriteOf(query[1], request.GET.query)
        /\ (/\ Occurrences(request.GET.query, "t_score()") = {}
            /\ Occurrences(request.GET.query, "degrees_of_freedom()") = {})
              => query[1] = request.GET.query

C4_Witness ==
    /\ pc = "data_fn"
    /\ HasQueryParam
    /\ Cardinality(Occurrences(request.GET.query, "t_score()")) = 2
    /\ Occurrences(request.GET.query, "degrees_of_freedom()") # {}
    /\ query # None
    /\ query[1] # request.GET.query

\* C5: for a range of whole seconds with start <= end, middle lies between
\* start and end and halves the range exactly, and the second it is
\* formatted to lies between them too, its two halves differing by at most
\* one second.
C5_MiddleBetween ==
    (middle # None) =>
        LET s  == request.params.start
            e  == request.params.end
            m  == middle[1]
            ss == s \div MicrosPerSecond
            es == e \div MicrosPerSecond
            ms == m \div MicrosPerSecond
        IN  /\ s <= m /\ m <= e
            /\ m - s = e - m
            /\ ss <= ms /\ ms <= es
            /\ (es - ms) - (ms - ss) \in {-1, 0, 1}
            /\ window[1] = [start |-> strftime(ss * MicrosPerSecond),
                            middle |-> strftime(ms * MicrosPerSecond),
                            end |-> strftime(es * MicrosPerSecond)]

C5_Witness ==
    /\ middle = Some(6500000)
    /\ request.params = [start |-> 3000000, end |-> 10000000]
    /\ window = Some([start |-> "2020-01-01T00:00:03",
                      middle |-> "2020-01-01T00:00:06",
                      end |-> "2020-01-01T00:00:10"])

\* C6 (as claimed): a request whose trend function is percentage, t_score or
\* degrees_of_freedom is rejected as an unsupported trend function, and no
\* primary query is issued for it.
C6_OrchestrationOnlyRejected ==
    (Passed /\ HasQueryParam /\ pc # "request"
       /\ TrendFunctionName \in {"percentage", "t_score", "degrees_of_freedom"}) =>
        /\ response.kind = "ParseError"
        /\ n_query = 0

\* C7 (as claimed): a request without the query parameter and with a
\* registered metric is processed without an error: discover.query is called
\* with the full column list.
C7_NoFilterProcessed ==
    (Passed /\ ~HasQueryParam /\ pc # "request"
       /\ TrendFunctionName \in {"p50", "p75", "p95", "p99", "avg", "count_range",
                                 "variance_range"}) =>
        /\ response.kind \in {"pending", "ok", "QueryError"}
        /\ n_query = 1
        /\ Compiled

\* C8: once discover.top_events_timeseries has raised, the request has ended
\* with that error: its response carries neither events nor stats, and the
\* call was made once and is not made again.
C8_StatsFailureFatal ==
    ("discover.top_events_timeseries" \in raised) =>
        /\ pc = "done"
        /\ in_flight = {}
        /\ response.kind = "QueryError"
        /\ response.events = None
        /\ response.stats = None
        /\ n_timeseries = 1

C8_Witness ==
    /\ IsStats
    /\ "discover.top_events_timeseries" \in raised
    /\ events_results = Some(3)
    /\ pc = "done"

\* C9: discover.top_events_timeseries is called only after discover.query
\* has returned its rows, the two calls are never outstanding together, and
\* a request whose discover.query raised never calls it.
C9_SecondaryAfterPrimary ==
    /\ Cardinality(in_flight) <= 1
    /\ ("discover.top_events_timeseries" \in in_flight \/ n_timeseries > 0) =>
          /\ n_query = 1
          /\ "discover.query" \notin in_flight
          /\ events_results # None
          /\ "discover.query" \notin raised
    /\ ("discover.query" \in raised) => n_timeseries = 0
    /\ ("discover.query" \in in_flight) => n_timeseries = 0

C9_Witness ==
    /\ "discover.top_events_timeseries" \in in_flight
    /\ events_results # None
    /\ n_query = 1

\* the alias the query engine tags the output of a compiled column with: a
\* call of one of the registry's range functions is tagged with the alias
\* prefix of that function and the window index, its last argument
ProducedAlias(expr) ==
    LET f == parse_function(expr)
    IN  IF f.err # "" \/ f.val.columns = <<>> THEN expr
        ELSE IF \E name \in DOMAIN trend_columns :
                    /\ "alias" \in DOMAIN trend_columns[name]
                    /\ trend_columns[name]["alias"] = f.val.function \o "_"
             THEN f.val.function \o "_" \o f.val.columns[Len(f.val.columns)]
             ELSE expr

\* the aliases a formula refers to: its arguments
References(expr) ==
    LET f == parse_function(expr)
    IN  { f.val.columns[k] : k \in 1..Len(f.val.columns) }

\* the aliases the delta, percentage, t_score and degrees_of_freedom columns
\* of the compiled list refer to
ReferencedAliases ==
    References(Column(3)) \cup References(Column(6))
        \cup References(Column(11)) \cup References(Column(12))

\* the alias each of the twelve compiled columns produces
ProducedAliases == [k \in 1..12 |-> ProducedAlias(Column(k))]

\* the positions of the compiled list whose column produces the alias a
Producers(produced, a) == { k \in 1..12 : produced[k] = a }

\* C10 (as claimed): every alias the delta, percentage, t_score and
\* degrees_of_freedom formulas refer to is produced by exactly one column of
\* the list discover.query is called with.
C10_ExactlyOneProducer ==
    (pc = "data_fn" /\ Compiled) =>
        LET produced == ProducedAliases
        IN  \A a \in ReferencedAliases : Cardinality(Producers(produced, a)) = 1

\* C10 (amended): every alias the delta, percentage, t_score and
\* degrees_of_freedom formulas refer to is produced by at least one column of
\* the list discover.query is called with, and the columns that produce it
\* are one and the same expression, so the reference resolves to one value.
C10_OneProducingExpression ==
    (pc = "data_fn" /\ Compiled) =>
        LET produced == ProducedAliases
        IN  \A a \in ReferencedAliases :
                Cardinality({ Column(k) : k \in Producers(produced, a) }) = 1

C10_Witness ==
    /\ Compiled
    /\ pc = "data_fn"
    /\ TrendFunctionName = "avg"
    /\ Column(1) = Column(9)
    /\ Producers(ProducedAliases, "avg_range_1") = {1, 9}
    /\ "avg_range_1" \in References(Column(3))

====
